---- MODULE Spec2Model ----
(***************************************************************************)
(* Model of langchain/chains/sequential.py: SequentialChain (the keyed     *)
(* pipeline) and SimpleSequentialChain (the scalar pipeline).              *)
(*                                                                         *)
(* Python lists of key names (input_variables, input_keys, output_keys,    *)
(* memory_variables, output_variables) are modelled as sets of names: the  *)
(* validator only ever converts them to sets, and the result of a call is  *)
(* a dict, whose key set is what the list denotes.                         *)
(***************************************************************************)
EXTENDS Integers, Sequences, FiniteSets, TLC

(* ------------------------------ bounds --------------------------------- *)

\* Longest list of chains a pipeline is constructed with.
MaxChains == 2

\* The universe of key names.
Names == {"a", "b", "c"}

\* Key sets a chain may require and produce, and the keys a memory may hold.
InputKeySets == SUBSET {"a", "b"}
OutputKeySets == {{"b"}, {"c"}, {"b", "c"}}
MemoryKeySets == {{"a"}, {"c"}}

\* The invocations of one pipeline instance that may be in flight together.
Slots == {1, 2}

\* Values a caller puts in its input map, and the keys it may add to the
\* pipeline's input_variables.
CallerValues == {1, 2}
ExtraKeySets == {{}, {"b"}}

(* --------------------------- external parts ---------------------------- *)

\* `memory is None` / a memory object with its memory_variables.
NoMemory == [present |-> FALSE, memory_variables |-> {}]

Memory(keys) == [present |-> TRUE, memory_variables |-> keys]

\* A step (langchain.chains.base.Chain) as the keyed pipeline sees it: its
\* declared keys, its memory, and whether its own _call raises.
Chains ==
    [input_keys : InputKeySets,
     output_keys : OutputKeySets,
     memory : {NoMemory, Memory({"a"})},
     fails : BOOLEAN]

ChainLists(steps) == UNION {[1..n -> steps] : n \in 0..MaxChains}

PipelineMemories == {NoMemory} \cup {Memory(k) : k \in MemoryKeySets}

\* The keyword arguments SequentialChain(...) is constructed with.
\* has_output_variables is `"output_variables" in values`.
KeyedValuesOver(steps, inputs, declared) ==
    [kind : {"keyed"},
     chains : ChainLists(steps),
     input_variables : inputs,
     memory : PipelineMemories,
     return_all : BOOLEAN,
     has_output_variables : {FALSE},
     output_variables : {{}}]
      \cup
    [kind : {"keyed"},
     chains : ChainLists(steps),
     input_variables : inputs,
     memory : PipelineMemories,
     return_all : BOOLEAN,
     has_output_variables : {TRUE},
     output_variables : declared]

\* A step as the scalar pipeline sees it: its declared keys, and what its run
\* does to the text it is given.
SimpleChains ==
    [input_keys : {{}, {"a"}, {"a", "b"}},
     output_keys : {{}, {"b"}, {"b", "c"}},
     text : {"uppercase", "reverse", "pad"},
     fails : BOOLEAN]

\* The keyword arguments SimpleSequentialChain(...) is constructed with.
SimpleValues ==
    [kind : {"scalar"},
     chains : ChainLists(SimpleChains),
     strip_outputs : BOOLEAN,
     input_key : {"input"},
     output_key : {"output"}]

\* The texts a caller passes to a scalar pipeline.
CallerTexts == {<<" ", "h", "i", " ">>, <<"h", "i">>}

\* Construction arguments the validator is checked on: steps never run there.
ValidatedValues ==
    KeyedValuesOver({c \in Chains : ~c.fails}, SUBSET {"a", "b"},
                    {{"c"}, {"a", "c"}, {"b", "c"}})

VARIABLES values, built, heap, calls

vars == <<values, built, heap, calls>>

(* ----------------- SequentialChain.validate_chains -------------------- *)

\* The raise statements of lines 56-61, 70-75, 77-80 and 93-94 with the
\* error dropped and the values returned as if validated.
RaisedButReturned(kind, names, known, step, inspected) ==
    [ok |-> TRUE, error |-> "none", names |-> {}, known |-> known,
     step |-> 0, inspected |-> inspected, output_variables |-> {},
     arity |-> 0]

Raised(kind, names, known, step, inspected) ==
    [ok |-> FALSE, error |-> kind, names |-> names, known |-> known,
     step |-> step, inspected |-> inspected, output_variables |-> {},
     arity |-> 0]

Validated(output_variables, known, inspected) ==
    [ok |-> TRUE, error |-> "none", names |-> {}, known |-> known,
     step |-> 0, inspected |-> inspected, output_variables |-> output_variables,
     arity |-> 0]

\* Lines 84-89 with the inputs kept in the outputs under return_all.
FinishValidationKeepsInputs(v, known_variables) ==
    LET n == Len(v.chains) IN
    IF ~v.has_output_variables
    THEN IF v.return_all
         THEN Validated(known_variables, known_variables, n)
         ELSE IF n = 0
              THEN Raised("IndexError", {}, known_variables, 0, n)
              ELSE Validated(v.chains[n].output_keys, known_variables, n)
    ELSE LET missing_vars == v.output_variables \ known_variables IN
         IF missing_vars # {}
         THEN Raised("UnknownOutput", missing_vars, known_variables, 0, n)
         ELSE Validated(v.output_variables, known_variables, n)

\* Lines 84-94 with the declared output_variables taken as they are.
FinishValidationUnchecked(v, known_variables) ==
    LET n == Len(v.chains) IN
    IF ~v.has_output_variables
    THEN IF v.return_all
         THEN Validated(known_variables \ v.input_variables, known_variables, n)
         ELSE IF n = 0
              THEN Raised("IndexError", {}, known_variables, 0, n)
              ELSE Validated(v.chains[n].output_keys, known_variables, n)
    ELSE Validated(v.output_variables, known_variables, n)

\* Lines 84-94: set or check values["output_variables"].
FinishValidation(v, known_variables) ==
    LET n == Len(v.chains) IN
    IF ~v.has_output_variables
    THEN IF v.return_all
         THEN Validated(known_variables \ v.input_variables, known_variables, n)
         ELSE IF n = 0
              \* chains[-1] of an empty list: IndexError
              THEN Raised("IndexError", {}, known_variables, 0, n)
              ELSE Validated(v.chains[n].output_keys, known_variables, n)
    ELSE LET missing_vars == v.output_variables \ known_variables IN
         IF missing_vars # {}
         THEN Raised("UnknownOutput", missing_vars, known_variables, 0, n)
         ELSE Validated(v.output_variables, known_variables, n)

\* Lines 67-69 without the chain's own memory_variables taken off.
MissingVarsIgnoringMemory(chain, known_variables) ==
    chain.input_keys \ known_variables

\* Lines 67-69: the input keys nothing provides.
\* Lines 63-75 with the check for missing input keys left out.
MissingVarsUnchecked(chain, known_variables) == {}

MissingVars(chain, known_variables) ==
    LET difference == chain.input_keys \ known_variables IN
    IF chain.memory.present
    THEN difference \ chain.memory.memory_variables
    ELSE difference

\* Line 77 with the chain's input keys in place of its output keys.
OverlappingKeysOfInputs(chain, known_variables) ==
    known_variables \cap chain.input_keys

\* Line 77: the output keys that already exist.
\* Lines 76-80 with the collision check left out.
OverlappingKeysUnchecked(chain, known_variables) == {}

OverlappingKeys(chain, known_variables) ==
    known_variables \cap chain.output_keys

\* Lines 66-82: the loop over the chains, from chain i on.
RECURSIVE ValidateFrom(_, _, _)
ValidateFrom(v, i, known_variables) ==
    IF i > Len(v.chains)
    THEN FinishValidation(v, known_variables)
    ELSE LET chain == v.chains[i]
             missing_vars == MissingVars(chain, known_variables)
             overlapping_keys == OverlappingKeys(chain, known_variables)
         IN IF missing_vars # {}
            THEN Raised("MissingInput", missing_vars, known_variables, i, i)
            ELSE IF overlapping_keys # {}
                 THEN Raised("DuplicateOutput", overlapping_keys,
                             known_variables, i, i)
                 ELSE ValidateFrom(v, i + 1,
                                   known_variables \cup chain.output_keys)

\* Lines 49-96 with the memory check made after the loop instead of before.
validate_chains_memory_last(v) ==
    LET memory_keys == IF v.memory.present THEN v.memory.memory_variables ELSE {}
        overlapping_keys == v.input_variables \cap memory_keys
        looped == ValidateFrom(v, 1, v.input_variables \cup memory_keys)
    IN IF ~looped.ok
       THEN looped
       ELSE IF v.memory.present /\ overlapping_keys # {}
            THEN Raised("OverlappingMemoryKeys", overlapping_keys, {}, 0,
                        Len(v.chains))
            ELSE looped

\* Lines 49-96: the memory check (49-62), then the loop and the outputs.
validate_chains(v) ==
    LET memory_keys == IF v.memory.present THEN v.memory.memory_variables ELSE {}
        overlapping_keys == v.input_variables \cap memory_keys
    IN IF v.memory.present /\ overlapping_keys # {}
       THEN Raised("OverlappingMemoryKeys", overlapping_keys, {}, 0, 0)
       ELSE ValidateFrom(v, 1, v.input_variables \cup memory_keys)

(* --------------- SimpleSequentialChain.validate_chains ----------------- *)

\* The ValueError of lines 160-171 for chain `step`, with the count it names.
RaisedArity(kind, step, arity) ==
    [Raised(kind, {}, {}, step, step) EXCEPT !.arity = arity]

\* Lines 159-172: every chain must have one input key and one output key.
RECURSIVE SimpleValidateFrom(_, _)
SimpleValidateFrom(v, i) ==
    IF i > Len(v.chains)
    THEN Validated({v.output_key}, {}, Len(v.chains))
    ELSE LET chain == v.chains[i] IN
         IF Cardinality(chain.input_keys) # 1
         THEN RaisedArity("ArityInputs", i, Cardinality(chain.input_keys))
         ELSE IF Cardinality(chain.output_keys) # 1
              THEN RaisedArity("ArityOutputs", i,
                               Cardinality(chain.output_keys))
              ELSE SimpleValidateFrom(v, i + 1)

\* Lines 159-172 with the output keys of a chain checked before its input
\* keys.
RECURSIVE SimpleValidateOutputsFirst(_, _)
SimpleValidateOutputsFirst(v, i) ==
    IF i > Len(v.chains)
    THEN Validated({v.output_key}, {}, Len(v.chains))
    ELSE LET chain == v.chains[i] IN
         IF Cardinality(chain.output_keys) # 1
         THEN RaisedArity("ArityOutputs", i, Cardinality(chain.output_keys))
         ELSE IF Cardinality(chain.input_keys) # 1
              THEN RaisedArity("ArityInputs", i,
                               Cardinality(chain.input_keys))
              ELSE SimpleValidateOutputsFirst(v, i + 1)

validate_chains_outputs_first(v) == SimpleValidateOutputsFirst(v, 1)

\* Lines 156-172.
SimpleSequentialChain_validate_chains(v) == SimpleValidateFrom(v, 1)

(* ---------------------------- construction ----------------------------- *)

NotBuilt == [state |-> "new", result |-> Validated({}, {}, 0)]

\* SequentialChain(**values): the validator runs, and the instance exists
\* only if it raised nothing.
Construct ==
    /\ values.kind = "keyed"
    /\ built.state = "new"
    /\ built' = [state |-> "done", result |-> validate_chains(values)]
    /\ UNCHANGED <<values, heap, calls>>

\* SimpleSequentialChain(**values), likewise.
ConstructSimple ==
    /\ values.kind = "scalar"
    /\ built.state = "new"
    /\ built' = [state |-> "done",
                 result |-> SimpleSequentialChain_validate_chains(values)]
    /\ UNCHANGED <<values, heap, calls>>

Constructed == built.state = "done" /\ built.result.ok

ConstructionFailed == built.state = "done" /\ ~built.result.ok

(* ------------------------- the steps, running -------------------------- *)

\* Line 108 with the update left out: the outputs are dropped.
UpdateSkipped(d, o) == d

\* dict.update(o) on d, and dict(d, **o): o's entries win.
Update(d, o) ==
    [k \in DOMAIN d \cup DOMAIN o |-> IF k \in DOMAIN o THEN o[k] ELSE d[k]]

RECURSIVE SumOf(_, _)
SumOf(d, keys) ==
    IF keys = {}
    THEN 0
    ELSE LET k == CHOOSE x \in keys : TRUE IN d[k] + SumOf(d, keys \ {k})

\* memory.load_memory_variables(): a value for each of the memory's keys.
LoadMemoryVariables(memory) == [k \in memory.memory_variables |-> 0]

\* Chain.prep_inputs of the base class: the memory's values are laid over
\* the inputs in a new dict; without a memory the inputs are used as given.
PrepInputs(memory, inputs) ==
    IF memory.present THEN Update(inputs, LoadMemoryVariables(memory)) ELSE inputs

NotRaised(outputs) == [raised |-> FALSE, error |-> "none", outputs |-> outputs]

RaisedBy(error) == [raised |-> TRUE, error |-> error, outputs |-> <<>>]

\* A step called with the accumulated values: it loads its own memory,
\* refuses a call that lacks one of its input keys, and otherwise raises its
\* own error or returns a value for each of its output keys (here one more
\* than the sum of the inputs it declared, so a -> b -> c from a = 1 gives
\* b = 2 and c = 3).
RunChain(chain, known_values) ==
    LET inputs == PrepInputs(chain.memory, known_values) IN
    IF chain.input_keys \ DOMAIN inputs # {}
    THEN RaisedBy("MissingKeys")
    ELSE IF chain.fails
         THEN RaisedBy("StepError")
         ELSE NotRaised([k \in chain.output_keys |->
                            SumOf(inputs, chain.input_keys) + 1])

(* ---------------- SequentialChain._call and ._acall -------------------- *)

\* The dict objects of a run: the one the caller passes, the one prep_inputs
\* builds when the pipeline has a memory, and the copy _call makes.
Addresses == {"caller", "prepared", "copy"} \X Slots

NoAddress == <<"none", 0>>

Idle ==
    [state |-> "idle", mode |-> "none", caller |-> NoAddress, input0 |-> <<>>,
     inputs |-> NoAddress, known_values |-> NoAddress, i |-> 0,
     children |-> 0, callbacks |-> 0, log |-> <<>>, result |-> <<>>,
     error |-> "none", current |-> <<>>, texts |-> <<>>]

\* Lines 103 and 116 with the copy left out: known_values is inputs itself.
InputsAliased(s, inputs) == inputs

\* Lines 103 and 116: known_values = inputs.copy(), a new dict object.
InputsCopy(s, inputs) == <<"copy", s>>

\* Lines 107 and 120 with the step's error caught and the loop continuing.
CallChainSuppressing(chain, known_values) ==
    LET run == RunChain(chain, known_values) IN
    IF run.raised THEN NotRaised(<<>>) ELSE run

\* Lines 107 and 120: the step is called with known_values, and nothing
\* around the call catches what it raises.
CallChain(chain, known_values) == RunChain(chain, known_values)

\* Lines 109 and 124 returning all of known_values.
ReturnedEverything(known_values, output_variables) == known_values

\* Lines 109 and 124: {k: known_values[k] for k in self.output_variables}.
Returned(known_values, output_variables) ==
    [k \in output_variables |-> known_values[k]]

\* Lines 109 and 124: the return statement, a KeyError if a key is absent.
Return(c, known_values) ==
    IF built.result.output_variables \subseteq DOMAIN known_values
    THEN [c EXCEPT !.state = "returned",
                   !.result = Returned(known_values,
                                       built.result.output_variables)]
    ELSE [c EXCEPT !.state = "raised", !.error = "KeyError"]

\* Lines 105-109 and 119-124: one turn of the loop for the call c, whose
\* known_values holds d, the step being given `callbacks`; after the last
\* step the method returns. Gives the call and known_values afterwards.
LoopTurn(c, d, callbacks) ==
    LET chain == values.chains[c.i + 1]
        run == CallChain(chain, d)
        entry == [chain |-> c.i + 1, inputs |-> d, callbacks |-> callbacks,
                  raised |-> run.raised, outputs |-> run.outputs]
        called == [c EXCEPT !.log = Append(@, entry), !.callbacks = callbacks]
        merged == Update(d, run.outputs)
        next == [called EXCEPT !.i = @ + 1]
    IN IF run.raised
       THEN [call |-> [called EXCEPT !.state = "raised", !.error = run.error],
             known_values |-> d]
       ELSE [call |-> IF next.i = Len(values.chains)
                      THEN Return(next, merged)
                      ELSE next,
             known_values |-> merged]

\* The maps a caller may pass: every input key, with or without a key more.
CallerInputs ==
    UNION {[values.input_variables \cup extra -> {x}] :
              extra \in ExtraKeySets, x \in CallerValues}

\* The call is entered: Chain.__call__ prepares the inputs and _call or
\* _acall runs up to its first step (lines 103-105, 116-119). The caller
\* passes a new dict m (source = s) or the dict object it passed to the
\* call `source`.
Enter(s, mode, source, m) ==
    LET caller == <<"caller", source>>
        given == IF source = s THEN m ELSE heap[caller]
        inputs == IF values.memory.present THEN <<"prepared", s>> ELSE caller
        prepared == PrepInputs(values.memory, given)
        known_values == InputsCopy(s, inputs)
        held == [[heap EXCEPT ![caller] = given] EXCEPT ![inputs] = prepared]
        c == [Idle EXCEPT !.state = "running", !.mode = mode,
                          !.caller = caller, !.input0 = given,
                          !.inputs = inputs, !.known_values = known_values,
                          !.children = IF mode = "_acall" THEN 1 ELSE 0,
                          !.callbacks = IF mode = "_acall" THEN 1 ELSE 0]
    IN /\ values.kind = "keyed"
       /\ Constructed
       /\ calls[s].state = "idle"
       /\ source = s \/ calls[source].state # "idle"
       /\ values.input_variables \subseteq DOMAIN given
       /\ heap' = [held EXCEPT ![known_values] = prepared]
       /\ calls' = [calls EXCEPT ![s] =
                       IF Len(values.chains) = 0 THEN Return(c, prepared) ELSE c]
       /\ UNCHANGED <<values, built>>

\* SequentialChain._call is entered (lines 98-105).
SequentialChain_call(s) ==
    /\ values.kind = "keyed"
    /\ \E source \in Slots, m \in CallerInputs : Enter(s, "_call", source, m)

\* SequentialChain._acall is entered (lines 111-119): the one get_child()
\* of line 118 is made here.
SequentialChain_acall(s) ==
    /\ values.kind = "keyed"
    /\ \E source \in Slots, m \in CallerInputs : Enter(s, "_acall", source, m)

\* A turn of _call's loop (lines 105-109): get_child() for this step.
SequentialChain_call_step(s) ==
    LET c == calls[s]
        turn == LoopTurn([c EXCEPT !.children = @ + 1],
                         heap[c.known_values], c.children + 1)
    IN /\ values.kind = "keyed"
       /\ c.state = "running" /\ c.mode = "_call"
       /\ calls' = [calls EXCEPT ![s] = turn.call]
       /\ heap' = [heap EXCEPT ![c.known_values] = turn.known_values]
       /\ UNCHANGED <<values, built>>

\* A turn of _acall's loop (lines 119-124), with the callbacks of line 118.
SequentialChain_acall_step(s) ==
    LET c == calls[s]
        turn == LoopTurn(c, heap[c.known_values], c.callbacks)
    IN /\ values.kind = "keyed"
       /\ c.state = "running" /\ c.mode = "_acall"
       /\ calls' = [calls EXCEPT ![s] = turn.call]
       /\ heap' = [heap EXCEPT ![c.known_values] = turn.known_values]
       /\ UNCHANGED <<values, built>>

(* ------------- SimpleSequentialChain._call and ._acall ----------------- *)

Reverse(text) == [k \in 1..Len(text) |-> text[Len(text) + 1 - k]]

Uppercase(text) ==
    [k \in 1..Len(text) |->
        CASE text[k] = "h" -> "H" [] text[k] = "i" -> "I" [] OTHER -> text[k]]

RECURSIVE LStrip(_)
LStrip(text) ==
    IF text # <<>> /\ Head(text) = " " THEN LStrip(Tail(text)) ELSE text

\* str.strip(): leading and trailing whitespace removed.
Strip(text) == Reverse(LStrip(Reverse(LStrip(text))))

\* chain.run(text) of a step: it raises its own error, or returns the text
\* upper-cased, reversed, or wrapped in blanks.
RunText(chain, text) ==
    IF chain.fails
    THEN RaisedBy("StepError")
    ELSE NotRaised(CASE chain.text = "uppercase" -> Uppercase(text)
                     [] chain.text = "reverse" -> Reverse(text)
                     [] OTHER -> <<" ">> \o text \o <<" ">>)

\* Lines 183 and 202 with the step's error caught and the text kept.
RunChainSuppressing(chain, text) ==
    LET run == RunText(chain, text) IN
    IF run.raised THEN NotRaised(text) ELSE run

\* Lines 183 and 202: chain.run / chain.arun, with nothing around the call
\* to catch what it raises.
RunOfChain(chain, text) == RunText(chain, text)

\* Lines 186-187 and 205-206 with strip_outputs ignored.
StrippedNever(text) == text

\* Lines 186-187 and 205-206.
Stripped(text) == IF values.strip_outputs THEN Strip(text) ELSE text

\* Lines 182-191 and 201-210: one turn of the loop for the call c; after the
\* last step the method returns {output_key: _input}.
\* Lines 188-190 and 207-209 with the report left out.
OnTextDropped(texts, text) == texts

\* Lines 188-190 and 207-209: _run_manager.on_text(_input, ...), the text
\* added to what the observer has received.
OnText(texts, text) == Append(texts, text)

SimpleLoopTurn(c) ==
    LET chain == values.chains[c.i + 1]
        callbacks == [child |-> c.children + 1, tag |-> c.i + 1]
        run == RunOfChain(chain, c.current)
        entry == [chain |-> c.i + 1, inputs |-> c.current,
                  callbacks |-> callbacks, raised |-> run.raised,
                  outputs |-> run.outputs]
        called == [c EXCEPT !.log = Append(@, entry),
                            !.children = @ + 1]
        text == Stripped(run.outputs)
        next == [called EXCEPT !.i = @ + 1, !.current = text,
                               !.texts = OnText(@, text)]
    IN IF run.raised
       THEN [called EXCEPT !.state = "raised", !.error = run.error]
       ELSE IF next.i = Len(values.chains)
            THEN [next EXCEPT !.state = "returned",
                              !.result = [k \in {values.output_key} |-> text]]
            ELSE next

\* Lines 179-182 and 198-201: the call is entered with the caller's map m.
SimpleEnter(s, mode, m) ==
    LET c == [Idle EXCEPT !.state = "running", !.mode = mode, !.input0 = m,
                          !.current = m[values.input_key]]
    IN /\ values.kind = "scalar"
       /\ Constructed
       /\ calls[s].state = "idle"
       /\ calls' = [calls EXCEPT ![s] =
                       IF Len(values.chains) = 0
                       THEN [c EXCEPT !.state = "returned",
                                      !.result = [k \in {values.output_key}
                                                     |-> c.current]]
                       ELSE c]
       /\ UNCHANGED <<values, built, heap>>

\* SimpleSequentialChain._call is entered (lines 174-182).
SimpleSequentialChain_call(s) ==
    /\ values.kind = "scalar"
    /\ \E text \in CallerTexts :
          SimpleEnter(s, "_call", [k \in {values.input_key} |-> text])

\* SimpleSequentialChain._acall is entered (lines 193-201).
SimpleSequentialChain_acall(s) ==
    /\ values.kind = "scalar"
    /\ \E text \in CallerTexts :
          SimpleEnter(s, "_acall", [k \in {values.input_key} |-> text])

\* A turn of _call's loop (lines 182-191).
SimpleSequentialChain_call_step(s) ==
    /\ values.kind = "scalar"
    /\ calls[s].state = "running" /\ calls[s].mode = "_call"
    /\ calls' = [calls EXCEPT ![s] = SimpleLoopTurn(calls[s])]
    /\ UNCHANGED <<values, built, heap>>

\* A turn of _acall's loop (lines 201-210).
SimpleSequentialChain_acall_step(s) ==
    /\ values.kind = "scalar"
    /\ calls[s].state = "running" /\ calls[s].mode = "_acall"
    /\ calls' = [calls EXCEPT ![s] = SimpleLoopTurn(calls[s])]
    /\ UNCHANGED <<values, built, heap>>

(* -------------------------- specifications ----------------------------- *)

InitValidate ==
    /\ values \in ValidatedValues
    /\ built = NotBuilt
    /\ heap = [a \in Addresses |-> <<>>]
    /\ calls = [s \in Slots |-> Idle]

NextValidate == Construct

SpecValidate == InitValidate /\ [][NextValidate]_vars

\* Construction arguments of the pipelines that are then run.
RunChains ==
    [input_keys : {{"a"}, {"b"}},
     output_keys : {{"b"}, {"c"}},
     memory : {NoMemory, Memory({"a"})},
     fails : BOOLEAN]

RunValues ==
    KeyedValuesOver(RunChains, {{}, {"a"}}, {{"a", "c"}}) \cup SimpleValues

Init ==
    /\ values \in RunValues
    /\ built = NotBuilt
    /\ heap = [a \in Addresses |-> <<>>]
    /\ calls = [s \in Slots |-> Idle]

Next ==
    \/ Construct
    \/ ConstructSimple
    \/ \E s \in Slots : SimpleSequentialChain_call(s)
    \/ \E s \in Slots : SimpleSequentialChain_acall(s)
    \/ \E s \in Slots : SimpleSequentialChain_call_step(s)
    \/ \E s \in Slots : SimpleSequentialChain_acall_step(s)
    \/ \E s \in Slots : SequentialChain_call(s)
    \/ \E s \in Slots : SequentialChain_acall(s)
    \/ \E s \in Slots : SequentialChain_call_step(s)
    \/ \E s \in Slots : SequentialChain_acall_step(s)

Spec == Init /\ [][Next]_vars

(* --------------------- the validator's claims -------------------------- *)

\* The names the spec's known-set holds before step i, written as a union
\* over the steps rather than as the validator's running variable.
MemoryKeys(v) == IF v.memory.present THEN v.memory.memory_variables ELSE {}

KnownAt(v, i) ==
    v.input_variables \cup MemoryKeys(v)
        \cup UNION {v.chains[j].output_keys : j \in 1..(i - 1)}

FinalKnown(v) == KnownAt(v, Len(v.chains) + 1)

OwnMemoryKeys(chain) ==
    IF chain.memory.present THEN chain.memory.memory_variables ELSE {}

StepMissing(v, i) ==
    (v.chains[i].input_keys \ OwnMemoryKeys(v.chains[i])) \ KnownAt(v, i)

StepCollisions(v, i) == KnownAt(v, i) \cap v.chains[i].output_keys

StepViolates(v, i) == StepMissing(v, i) # {} \/ StepCollisions(v, i) # {}

StepsPass(v) == \A i \in 1..Len(v.chains) : ~StepViolates(v, i)

MemoryOverlap(v) == v.input_variables \cap MemoryKeys(v)

\* C1: whenever construction of a keyed pipeline succeeds, input_variables
\* and the pipeline memory keys are disjoint, every step's input keys minus
\* its own memory keys lie in the known-set at its position, no step's
\* output keys meet that known-set, and so the steps' output keys are
\* pairwise disjoint and disjoint from the inputs and the memory keys.
C1_ValidatedInvariant ==
    (values.kind = "keyed" /\ Constructed) =>
        /\ MemoryOverlap(values) = {}
        /\ \A i \in 1..Len(values.chains) :
              /\ StepMissing(values, i) = {}
              /\ StepCollisions(values, i) = {}
        /\ \A i, j \in 1..Len(values.chains) :
              i # j => values.chains[i].output_keys
                          \cap values.chains[j].output_keys = {}
        /\ \A i \in 1..Len(values.chains) :
              values.chains[i].output_keys
                 \cap (values.input_variables \cup MemoryKeys(values)) = {}

\* C1 witness: a constructed pipeline of two steps with a pipeline memory,
\* whose second step reads the first step's output.
C1_Witness ==
    /\ values.kind = "keyed" /\ Constructed
    /\ Len(values.chains) = 2
    /\ values.memory.present
    /\ values.chains[2].input_keys \cap values.chains[1].output_keys # {}

\* C2 (as claimed): with no declared output_variables and disjoint memory
\* keys, every step sequence, the empty one included, whose steps all pass
\* the requirement and collision conditions is constructed successfully,
\* whatever return_all is.
C2_PassingStepsConstruct ==
    (/\ values.kind = "keyed"
     /\ built.state = "done"
     /\ ~values.has_output_variables
     /\ MemoryOverlap(values) = {}
     /\ StepsPass(values))
        => built.result.ok

FirstViolation(v) ==
    CHOOSE i \in 1..Len(v.chains) :
        StepViolates(v, i) /\ \A j \in 1..(i - 1) : ~StepViolates(v, j)

\* C3: when the step loop is reached (the memory check of C6 passed) and
\* some step violates the requirement or the collision condition,
\* construction fails at the first such step; a missing input is reported
\* as MissingInput with exactly input_keys - known - own memory keys and
\* the known-set at that step, and takes precedence over a collision at
\* the same step; otherwise DuplicateOutput carries exactly
\* known \cap output_keys.
C3_FirstViolationReported ==
    (/\ values.kind = "keyed"
     /\ built.state = "done"
     /\ MemoryOverlap(values) = {}
     /\ ~StepsPass(values))
        => LET f == FirstViolation(values) IN
           /\ ~built.result.ok
           /\ built.result.step = f
           /\ built.result.known = KnownAt(values, f)
           /\ IF StepMissing(values, f) # {}
              THEN /\ built.result.error = "MissingInput"
                   /\ built.result.names = StepMissing(values, f)
              ELSE /\ built.result.error = "DuplicateOutput"
                   /\ built.result.names = StepCollisions(values, f)

\* C3 witness: construction has failed at the second step, which both
\* misses an input and collides, some but not all of its input keys being
\* missing, one of them resolved by its own memory.
C3_Witness ==
    /\ values.kind = "keyed" /\ ConstructionFailed
    /\ Len(values.chains) = 2
    /\ built.result.step = 2
    /\ built.result.error = "MissingInput"
    /\ StepCollisions(values, 2) # {}
    /\ built.result.names # values.chains[2].input_keys
    /\ values.chains[2].memory.present
    /\ (values.chains[2].input_keys \cap OwnMemoryKeys(values.chains[2]))
          \ KnownAt(values, 2) # {}

ExampleChain(inputs, outputs) ==
    [input_keys |-> inputs, output_keys |-> outputs, memory |-> NoMemory,
     fails |-> FALSE]

\* Section 8's example: inputs {a}, steps a -> b and b -> c.
ExampleValues(return_all) ==
    [kind |-> "keyed",
     chains |-> <<ExampleChain({"a"}, {"b"}), ExampleChain({"b"}, {"c"})>>,
     input_variables |-> {"a"},
     memory |-> NoMemory,
     return_all |-> return_all,
     has_output_variables |-> FALSE,
     output_variables |-> {}]

\* C4: with no declared output_variables, a successful construction sets
\* the output names to the final known-set minus input_variables under
\* return_all, and to exactly the last step's output_keys otherwise; the
\* example gives {b, c} and {c}.
C4_InferredOutputs ==
    (/\ values.kind = "keyed"
     /\ Constructed
     /\ ~values.has_output_variables)
        => /\ built.result.output_variables =
                 IF values.return_all
                 THEN FinalKnown(values) \ values.input_variables
                 ELSE values.chains[Len(values.chains)].output_keys
           /\ values = ExampleValues(TRUE)
                 => built.result.output_variables = {"b", "c"}
           /\ values = ExampleValues(FALSE)
                 => built.result.output_variables = {"c"}

\* C4 witness: the example under return_all has been constructed, and its
\* outputs are the two steps' outputs without the input.
C4_Witness ==
    /\ values = ExampleValues(TRUE)
    /\ Constructed
    /\ built.result.output_variables = {"b", "c"}

\* C6: when a pipeline memory is present and input_variables meets its
\* keys, construction fails with OverlappingMemoryKeys naming the shared
\* keys, and no step has been inspected, whatever the steps are.
C6_OverlapFailsFirst ==
    (/\ values.kind = "keyed"
     /\ built.state = "done"
     /\ values.memory.present
     /\ MemoryOverlap(values) # {})
        => /\ ~built.result.ok
           /\ built.result.error = "OverlappingMemoryKeys"
           /\ built.result.names = MemoryOverlap(values)
           /\ built.result.inspected = 0

\* C6 witness: the keys overlap and the first step would also miss an input.
C6_Witness ==
    /\ values.kind = "keyed" /\ ConstructionFailed
    /\ built.result.error = "OverlappingMemoryKeys"
    /\ Len(values.chains) = 2
    /\ StepMissing(values, 1) # {}

(* ----------------------- the claims about calls ------------------------ *)

Finished(c) == c.state \in {"returned", "raised"}

\* C5: for steps that pass the per-step checks, declared output_variables
\* inside the final known-set make construction succeed with exactly the
\* declared names as output names, whatever return_all is, and every call
\* that returns has exactly those names as keys; declared names outside the
\* final known-set make construction fail with UnknownOutput naming exactly
\* the declared names that are not known.
C5_DeclaredOutputs ==
    (/\ values.kind = "keyed"
     /\ built.state = "done"
     /\ values.has_output_variables
     /\ MemoryOverlap(values) = {}
     /\ StepsPass(values))
        => IF values.output_variables \subseteq FinalKnown(values)
           THEN /\ built.result.ok
                /\ built.result.output_variables = values.output_variables
                /\ \A s \in Slots :
                      calls[s].state = "returned"
                         => DOMAIN calls[s].result = values.output_variables
           ELSE /\ ~built.result.ok
                /\ built.result.error = "UnknownOutput"
                /\ built.result.names =
                      values.output_variables \ FinalKnown(values)

\* C5 witness: a pipeline with declared outputs, return_all set and a
\* pipeline memory has returned from a call over two steps, the result
\* holding the declared names, one of them the memory's.
C5_Witness ==
    /\ values.kind = "keyed" /\ Constructed
    /\ values.has_output_variables /\ values.return_all
    /\ values.memory.present
    /\ Len(values.chains) = 2
    /\ calls[1].state = "returned"
    /\ DOMAIN calls[1].result = {"a", "c"}

\* The caller's inputs updated in order by the outputs the first k steps of
\* the call returned.
RECURSIVE MergedOutputs(_, _, _)
MergedOutputs(start, log, k) ==
    IF k = 0
    THEN start
    ELSE Update(MergedOutputs(start, log, k - 1), log[k].outputs)

\* C7: a call of a constructed keyed pipeline on a map covering the input
\* names, in which no step raises, returns a map whose keys are exactly the
\* output names and whose values are those of the final accumulator (the
\* inputs updated in order by each step's outputs); the example on {a: 1}
\* returns {c: 3}.
C7_ReturnsOutputNames ==
    values.kind = "keyed" =>
        \A s \in Slots :
            LET c == calls[s]
                final == MergedOutputs(PrepInputs(values.memory, c.input0),
                                       c.log, Len(c.log))
            IN /\ c.state = "returned" =>
                    /\ DOMAIN c.result = built.result.output_variables
                    /\ Len(c.log) = Len(values.chains)
                    /\ \A k \in DOMAIN c.result : c.result[k] = final[k]
               /\ c.state = "raised" =>
                    /\ c.log # <<>>
                    /\ RunChain(values.chains[Len(c.log)],
                                c.log[Len(c.log)].inputs).raised
               /\ (/\ c.state = "returned"
                   /\ values = ExampleValues(FALSE)
                   /\ c.input0 = [k \in {"a"} |-> 1])
                      => c.result = [k \in {"c"} |-> 3]

\* C7 witness: the example pipeline has returned {c: 3} for {a: 1}.
C7_Witness ==
    /\ values = ExampleValues(FALSE)
    /\ calls[1].state = "returned"
    /\ calls[1].input0 = [k \in {"a"} |-> 1]
    /\ calls[1].result = [k \in {"c"} |-> 3]

\* C8 (as claimed): a blocking and a suspendable call of the same pipeline
\* on the same input make the same step invocations with the same
\* arguments, and end the same way with the same returned map.
C8_ModesAgree ==
    \A s, t \in Slots :
        (/\ Finished(calls[s]) /\ Finished(calls[t])
         /\ calls[s].mode = "_call" /\ calls[t].mode = "_acall"
         /\ calls[s].input0 = calls[t].input0)
            => /\ calls[s].state = calls[t].state
               /\ calls[s].error = calls[t].error
               /\ calls[s].result = calls[t].result
               /\ calls[s].log = calls[t].log

\* A log without the callbacks each step was given.
WithoutCallbacks(log) ==
    [k \in 1..Len(log) |->
        [chain |-> log[k].chain, inputs |-> log[k].inputs,
         raised |-> log[k].raised, outputs |-> log[k].outputs]]

\* What the two modes do agree on: the steps invoked, the map each is
\* given, what each returns or raises, and how the call ends. They differ
\* in the callbacks alone: _call makes a get_child() for every step,
\* _acall makes one before the loop and gives it to every step.
ModesAgreeOnData ==
    \A s, t \in Slots :
        (/\ Finished(calls[s]) /\ Finished(calls[t])
         /\ calls[s].mode = "_call" /\ calls[t].mode = "_acall"
         /\ calls[s].input0 = calls[t].input0)
            => /\ calls[s].state = calls[t].state
               /\ calls[s].error = calls[t].error
               /\ calls[s].result = calls[t].result
               /\ WithoutCallbacks(calls[s].log) = WithoutCallbacks(calls[t].log)

\* The accumulator of a call after its first k steps, from its own inputs
\* and its own steps alone.
RECURSIVE OwnAccumulator(_, _)
OwnAccumulator(start, k) ==
    IF k = 0
    THEN start
    ELSE LET before == OwnAccumulator(start, k - 1) IN
         Update(before, RunChain(values.chains[k], before).outputs)

\* C9: each call of a keyed pipeline works on its own accumulator: the map
\* given to each of its steps, its accumulator while it is suspended
\* between steps, and its result are what its own input map and its own
\* steps' outputs give, whatever other calls of the instance do meanwhile.
C9_AccumulatorIsolation ==
    values.kind = "keyed" =>
        \A s \in Slots :
            LET c == calls[s]
                start == PrepInputs(values.memory, c.input0)
            IN c.state # "idle" =>
                /\ \A k \in 1..Len(c.log) :
                      /\ c.log[k].chain = k
                      /\ c.log[k].inputs = OwnAccumulator(start, k - 1)
                /\ c.state = "running" =>
                      heap[c.known_values] = OwnAccumulator(start, c.i)
                /\ c.state = "returned" =>
                      c.result = [k \in built.result.output_variables |->
                                     OwnAccumulator(start, Len(values.chains))[k]]

\* C9 witness: two suspendable calls on different input maps are both
\* suspended after their first step.
C9_Witness ==
    /\ values.kind = "keyed"
    /\ \A s \in Slots :
          /\ calls[s].state = "running"
          /\ calls[s].mode = "_acall"
          /\ calls[s].i = 1
    /\ calls[1].input0 # calls[2].input0

\* What the step of a log entry does when it is called with the entry's
\* inputs.
StepRun(entry) ==
    IF values.kind = "keyed"
    THEN RunChain(values.chains[entry.chain], entry.inputs)
    ELSE RunText(values.chains[entry.chain], entry.inputs)

\* C10: when a step raises during a call of either pipeline in either mode,
\* the steps up to it were each invoked once in order, it is the last step
\* invoked, the call ends with that step's own error and no result map.
C10_StepErrorPropagates ==
    \A s \in Slots :
        LET c == calls[s] IN
        \A k \in 1..Len(c.log) :
            /\ c.log[k].chain = k
            /\ StepRun(c.log[k]).raised =>
                  /\ k = Len(c.log)
                  /\ c.state = "raised"
                  /\ c.error = StepRun(c.log[k]).error
                  /\ c.result = <<>>

\* C10 witness: the second step of a keyed pipeline has raised in a
\* suspendable call, after the first step returned.
C10_Witness ==
    /\ values.kind = "keyed"
    /\ calls[1].mode = "_acall"
    /\ calls[1].state = "raised"
    /\ calls[1].error = "StepError"
    /\ Len(calls[1].log) = 2

(* ------------------ the claims about the scalar pipeline --------------- *)

\* What the first k steps make of the text: each step applied to what the
\* step before gave, every result trimmed when `strip` is set.
RECURSIVE Piped(_, _, _, _)
Piped(chains, strip, text, k) ==
    IF k = 0
    THEN text
    ELSE LET out == RunText(chains[k], Piped(chains, strip, text, k - 1)).outputs
         IN IF strip THEN Strip(out) ELSE out

ExampleStep(text) ==
    [input_keys |-> {"a"}, output_keys |-> {"b"}, text |-> text,
     fails |-> FALSE]

\* C11: a call of a scalar pipeline on v that returns gives, under
\* output_key alone, sn(...s1(v)) untrimmed when strip_outputs is false, and
\* strip(sn(...strip(s1(v)))) when it is set, the last step's result being
\* trimmed too; uppercase then reverse on " hi " without trimming gives
\* " IH ".
C11_ScalarComposition ==
    values.kind = "scalar" =>
        \A s \in Slots :
            LET c == calls[s] IN
            c.state = "returned" =>
                /\ DOMAIN c.result = {values.output_key}
                /\ c.result[values.output_key] =
                      Piped(values.chains, values.strip_outputs,
                            c.input0[values.input_key], Len(values.chains))
                /\ (/\ values.chains = <<ExampleStep("uppercase"),
                                         ExampleStep("reverse")>>
                    /\ ~values.strip_outputs
                    /\ c.input0[values.input_key] = <<" ", "h", "i", " ">>)
                      => c.result[values.output_key] = <<" ", "I", "H", " ">>

\* C11 witness: with strip_outputs set, a call over two steps, the last one
\* wrapping its text in blanks, has returned the text without the blanks.
C11_Witness ==
    /\ values.kind = "scalar"
    /\ values.strip_outputs
    /\ Len(values.chains) = 2
    /\ values.chains[1].text = "uppercase"
    /\ values.chains[2].text = "pad"
    /\ calls[1].state = "returned"
    /\ calls[1].input0[values.input_key] = <<" ", "h", "i", " ">>
    /\ calls[1].result[values.output_key] = <<"H", "I">>

OneInOneOut(chain) ==
    Cardinality(chain.input_keys) = 1 /\ Cardinality(chain.output_keys) = 1

\* C12: construction of a scalar pipeline succeeds exactly when every step
\* has one input key and one output key; otherwise it fails for the first
\* step that has not, naming that step and the count that is not 1, the
\* input count if that is not 1 and the output count otherwise.
C12_ArityChecked ==
    (values.kind = "scalar" /\ built.state = "done") =>
        LET bad == {i \in 1..Len(values.chains) : ~OneInOneOut(values.chains[i])}
        IN IF bad = {}
           THEN built.result.ok
           ELSE LET f == CHOOSE i \in bad : \A j \in bad : i <= j
                    ins == Cardinality(values.chains[f].input_keys)
                    outs == Cardinality(values.chains[f].output_keys)
                IN /\ ~built.result.ok
                   /\ built.result.step = f
                   /\ IF ins # 1
                      THEN /\ built.result.error = "ArityInputs"
                           /\ built.result.arity = ins
                      ELSE /\ built.result.error = "ArityOutputs"
                           /\ built.result.arity = outs

\* C12 witness: construction has failed at the second step, which has no
\* input key and two output keys, and the error names its input count.
C12_Witness ==
    /\ values.kind = "scalar" /\ ConstructionFailed
    /\ built.result.step = 2
    /\ Cardinality(values.chains[2].input_keys) = 0
    /\ Cardinality(values.chains[2].output_keys) = 2
    /\ built.result.error = "ArityInputs"
    /\ built.result.arity = 0

(* ----------------------- the claims about failing fast ----------------- *)

\* The constructor arguments that no raise statement of the validator
\* objects to.
ArgumentsValid(v) ==
    IF v.kind = "scalar"
    THEN \A i \in 1..Len(v.chains) : OneInOneOut(v.chains[i])
    ELSE /\ MemoryOverlap(v) = {}
         /\ StepsPass(v)
         /\ IF v.has_output_variables
            THEN v.output_variables \subseteq FinalKnown(v)
            ELSE v.return_all \/ Len(v.chains) >= 1

\* C13: construction invokes no step and starts no call; a call is started
\* or advanced, and so a step invoked, only on a pipeline whose construction
\* has succeeded, on arguments the validator does not object to; after a
\* failed construction no call ever runs.
C13_FailFast ==
    [][/\ built' # built => calls' = calls
       /\ calls' # calls => Constructed /\ ArgumentsValid(values)
       /\ ConstructionFailed => \A s \in Slots : calls'[s] = Idle]_vars

\* C13 witness: construction has failed at the last check, after every step
\* passed its own, and no call has run.
C13_Witness ==
    /\ values.kind = "keyed" /\ ConstructionFailed
    /\ Len(values.chains) = 2
    /\ StepsPass(values)
    /\ MemoryOverlap(values) = {}
    /\ \A s \in Slots : calls[s] = Idle

(* ---------------------- the claims about the keyed loop ---------------- *)

AllOutputKeys(v) == UNION {v.chains[i].output_keys : i \in 1..Len(v.chains)}

\* The merge of a step's outputs loses nothing: no key of the outputs is a
\* key the accumulator held when the step was invoked.
LosslessMerges(c) ==
    \A k \in 1..Len(c.log) :
        ~c.log[k].raised =>
            DOMAIN c.log[k].outputs \cap DOMAIN c.log[k].inputs = {}

\* C14 (as claimed): in every call of a constructed keyed pipeline on a
\* caller map covering at least input_variables, extra keys allowed, the
\* keys of each step's outputs are disjoint from the keys the accumulator
\* already holds, so no merge overwrites a value.
C14_MergeNeverLossy ==
    values.kind = "keyed" => \A s \in Slots : LosslessMerges(calls[s])

\* C14 (amended): the same for the calls whose caller map holds no key that
\* a step of the pipeline produces.
C14_MergeLosslessWithoutProducedKeys ==
    values.kind = "keyed" =>
        \A s \in Slots :
            DOMAIN calls[s].input0 \cap AllOutputKeys(values) = {}
                => LosslessMerges(calls[s])

\* C14 witness: a call on a caller map with a key beyond input_variables
\* that no step produces has merged the outputs of its step and returned.
C14_Witness ==
    /\ values.kind = "keyed"
    /\ calls[1].state = "returned"
    /\ Len(calls[1].log) >= 1
    /\ DOMAIN calls[1].input0 \ values.input_variables # {}
    /\ DOMAIN calls[1].input0 \cap AllOutputKeys(values) = {}

\* The accumulator d after the outputs o of a step are merged into it.
MergedWith(d, o, r) ==
    /\ DOMAIN r = DOMAIN d \cup DOMAIN o
    /\ \A k \in DOMAIN o : r[k] = o[k]
    /\ \A k \in DOMAIN d \ DOMAIN o : r[k] = d[k]

\* C15: within one call of a keyed pipeline, in either mode and whatever
\* other calls run in between, the steps are invoked in declaration order,
\* each at most once and all of them once when the call returns; step k+1 is
\* invoked only after step k has returned, on the accumulator that holds
\* step k's merged outputs.
C15_StepsInOrder ==
    values.kind = "keyed" =>
        \A s \in Slots :
            LET c == calls[s] IN
            /\ \A k \in 1..Len(c.log) : c.log[k].chain = k
            /\ Len(c.log) <= Len(values.chains)
            /\ c.state = "running" => Len(c.log) = c.i
            /\ c.state = "returned" => Len(c.log) = Len(values.chains)
            /\ \A k \in 1..(Len(c.log) - 1) :
                  /\ ~c.log[k].raised
                  /\ MergedWith(c.log[k].inputs, c.log[k].outputs,
                                c.log[k + 1].inputs)
            /\ (c.state = "running" /\ Len(c.log) >= 1) =>
                  MergedWith(c.log[Len(c.log)].inputs,
                             c.log[Len(c.log)].outputs, heap[c.known_values])

\* C15 witness: two suspendable calls of a two-step pipeline are under way
\* together, one returned after both steps, the other between its steps.
C15_Witness ==
    /\ values.kind = "keyed"
    /\ Len(values.chains) = 2
    /\ calls[1].mode = "_acall" /\ calls[2].mode = "_acall"
    /\ calls[1].state = "returned" /\ Len(calls[1].log) = 2
    /\ calls[2].state = "running" /\ Len(calls[2].log) = 1
    /\ calls[1].log[2].inputs # calls[1].log[1].inputs

\* C16 (as claimed): in either mode every step of a call gets a callbacks
\* channel derived for it alone: a call that has invoked steps has made as
\* many get_child() derivations as it has invoked steps, and no two of its
\* steps were given the same derived channel.
C16_ChannelPerStep ==
    values.kind = "keyed" =>
        \A s \in Slots :
            LET c == calls[s] IN
            Len(c.log) >= 1 =>
                /\ c.children = Len(c.log)
                /\ \A j, k \in 1..Len(c.log) :
                      j # k => c.log[j].callbacks # c.log[k].callbacks

(* ----------------- the claims about the scalar reports ----------------- *)

Trimmed(text) == IF values.strip_outputs THEN Strip(text) ELSE text

\* C17: in a call of a scalar pipeline in which no step fails, the observer
\* gets one text per step in step order and n in all when the call returns;
\* the k-th text is what step k returned, trimmed if strip_outputs is set;
\* it is there before step k+1 is invoked, which is invoked with it; the
\* last text is the value returned; and step k's own channel is tagged
\* step_k, counting from 1.
C17_TextReports ==
    values.kind = "scalar" =>
        \A s \in Slots :
            LET c == calls[s] IN
            c.state \in {"running", "returned"} =>
                /\ Len(c.texts) = Len(c.log)
                /\ Len(c.texts) = c.i
                /\ c.state = "returned" => Len(c.texts) = Len(values.chains)
                /\ \A k \in 1..Len(c.log) :
                      /\ c.log[k].chain = k
                      /\ c.log[k].callbacks.tag = k
                      /\ c.texts[k] = Trimmed(c.log[k].outputs)
                      /\ k > 1 => c.log[k].inputs = c.texts[k - 1]
                /\ (c.state = "returned" /\ Len(c.texts) >= 1) =>
                      c.result[values.output_key] = c.texts[Len(c.texts)]

\* C17 witness: a call over two steps with strip_outputs set has returned;
\* the first text reported is a step's result without its blanks, which the
\* second step was given.
C17_Witness ==
    /\ values.kind = "scalar"
    /\ values.strip_outputs
    /\ Len(values.chains) = 2
    /\ calls[1].state = "returned"
    /\ Len(calls[1].texts) = 2
    /\ calls[1].texts[1] # calls[1].log[1].outputs
    /\ calls[1].log[2].inputs = calls[1].texts[1]

(* ------------- the claims about availability and the frame ------------- *)

\* C18: in every call of a constructed keyed pipeline on a caller map that
\* covers input_variables, the accumulator a step is invoked with holds
\* every input key of the step that is not one of the step's own memory
\* keys, so no step is invoked with a required key absent.
C18_RequiredKeysAvailable ==
    values.kind = "keyed" =>
        \A s \in Slots :
            LET c == calls[s] IN
            /\ \A k \in 1..Len(c.log) :
                  LET chain == values.chains[c.log[k].chain] IN
                  (chain.input_keys \ OwnMemoryKeys(chain))
                      \subseteq DOMAIN c.log[k].inputs
            /\ c.error # "MissingKeys"

\* C18 witness: the second step of a call has been invoked with an
\* accumulator that holds the first step's output and lacks the step's
\* input key, a key of the step's own memory.
C18_Witness ==
    /\ values.kind = "keyed"
    /\ \E s \in Slots :
          LET c == calls[s] IN
          /\ Len(c.log) = 2
          /\ ~c.log[2].raised
          /\ values.chains[2].input_keys \ DOMAIN c.log[2].inputs # {}
          /\ DOMAIN c.log[2].inputs # {}

\* C19: a call of a keyed pipeline, in either mode, running, returned or
\* ended by a step's error, leaves the caller's map as it was passed: the
\* steps' outputs go to the call's own copy; and no call changes the
\* pipeline's chains, input_variables or output_variables.
C19_CallerMapAndPipelineUnchanged ==
    [][/\ values.kind = "keyed" =>
             \A s \in Slots :
                 calls'[s].state # "idle" =>
                     heap'[calls'[s].caller] = calls'[s].input0
       /\ built.state = "done" => (values' = values /\ built' = built)]_vars

\* C19 witness: a call has ended with the error of its second step after
\* the first step's outputs were merged, and the caller's map, which a
\* second call was passed too, is as passed while the call's own copy has
\* grown.
C19_Witness ==
    /\ values.kind = "keyed"
    /\ calls[1].state = "raised"
    /\ Len(calls[1].log) = 2
    /\ heap[calls[1].caller] = calls[1].input0
    /\ heap[calls[1].known_values] # calls[1].input0
    /\ calls[2].state = "raised"
    /\ calls[2].caller = calls[1].caller

====
